---- MODULE Spec2Model ----
(***************************************************************************)
(* Model of cms/server/contest/handlers/main.py (Contest Web Server):      *)
(* LoginHandler, NotificationsHandler and PrintingHandler.                 *)
(*                                                                         *)
(* Requests are served by independent workers that share the database;     *)
(* a handler that writes to the database is cut into steps at the points   *)
(* where it talks to the database or to another service.  A handler is     *)
(* synchronous: within one process it runs without interruption, and so    *)
(* does all code on the process' own memory (the notifications dict).      *)
(***************************************************************************)
EXTENDS Integers, Sequences, FiniteSets, TLC

\* ------------------------------------------------------------------------
\* Bounds
\* ------------------------------------------------------------------------
MaxLogins == 3        \* Login requests started in one behaviour
MaxTime == 3          \* last value of the server clock
MaxFetches == 2       \* notification fetches started in one behaviour
MaxSubmits == 3       \* print submissions started in one behaviour
MaxPushes == 1        \* notifications pushed while fetches are observed
MaxStarts == 3        \* start requests in one behaviour

\* ------------------------------------------------------------------------
\* Values
\* ------------------------------------------------------------------------
Reqs == {1, 2}                              \* concurrently served requests
Users == {"alice", "bob"}                   \* rows of the User table
Usernames == Users \cup {"carol"}           \* "carol" has no User row
Passwords == {"secret", "contestpw"}
Addresses == {"10.0.0.1", "10.0.0.2"}
None == "None"
Fetchers == {"alice"}                      \* users whose client polls

\* ------------------------------------------------------------------------
\* Stored passwords.  A stored password is the string
\*   "bcrypt:" + bcrypt.hashpw(pw, salt)     (strong-salted-hash)
\*   "text:" + pw                            (plaintext)
\*   sha256(pw + config.secret_key).hexdigest()   (legacy-keyed-hash)
\* Hashes are modelled as injective: a digest is named by its preimage.
\* ------------------------------------------------------------------------
NoPassword == [prefix |-> None, of |-> "", salt |-> ""]
TextPw(pw) == [prefix |-> "text:", of |-> pw, salt |-> ""]
LegacyPw(pw) == [prefix |-> "", of |-> pw, salt |-> "secret_key"]
BcryptPw(pw, salt) == [prefix |-> "bcrypt:", of |-> pw, salt |-> salt]

StoredOf(pw) == {TextPw(pw), LegacyPw(pw), BcryptPw(pw, "s0")}

\* the scheme a stored password is under (the startswith tests, in order)
Scheme(storedpw) ==
    IF storedpw.prefix = "bcrypt:" THEN "strong-salted-hash"
    ELSE IF storedpw.prefix = "text:" THEN "plaintext"
    ELSE "legacy-keyed-hash"

\* LoginHandler.validate_password(pw, storedpw_obj): the result and the
\* value of storedpw_obj.password when it returns.  gensalt() draws the salt.
\* No statement of this file calls the method: LoginHandler.post calls the
\* module-level validate_password imported from cmscommon.crypto.
LoginHandler_validate_password(pw, storedpw, salt) ==
    IF storedpw.prefix = "bcrypt:"
    THEN [ok |-> BcryptPw(pw, storedpw.salt) = storedpw, password |-> storedpw]
    ELSE IF storedpw.prefix = "text:"
    THEN [ok |-> pw = storedpw.of, password |-> storedpw]
    ELSE IF LegacyPw(pw) # storedpw
    THEN [ok |-> FALSE, password |-> storedpw]
    ELSE [ok |-> TRUE, password |-> BcryptPw(pw, salt)]

\* cmscommon.crypto.validate_password(authentication, password): verifies
\* password against the stored string per its scheme.  It receives the
\* string by value and returns a boolean.
validate_password(authentication, password) ==
    IF Scheme(authentication) = "strong-salted-hash"
    THEN BcryptPw(password, authentication.salt) = authentication
    ELSE IF Scheme(authentication) = "plaintext"
    THEN authentication.of = password
    ELSE LegacyPw(password) = authentication

\* check_ip(client, wanted): the client address lies in the bound address
check_ip(client, wanted) == client = wanted

\* ------------------------------------------------------------------------
\* State
\* ------------------------------------------------------------------------
VARIABLES
    users,          \* User table: username -> stored password
    parts,          \* Participation table of the contest: set of rows
    contest,        \* the contest's settings
    login,          \* per request: position and locals of LoginHandler.post
    nlogins         \* Login requests started so far

VARIABLES
    now,            \* server clock, seconds
    notifications,  \* service.notifications: username -> list of tuples
    npushed,        \* add_notification calls so far (names the tuples)
    unread,         \* the <contest>_unread_count cookie of each user
    fetched,        \* the last two responses written, oldest first
    nfetches,       \* fetches started so far
    delivered,      \* per pushed tuple: the number of responses it is in
    counted,        \* per user: durable entries of all the responses so far
    printing_enabled,   \* r_params["printing_enabled"]
    printjobs,      \* PrintJob table: set of rows
    puts,           \* file_cacher.put_file_content calls so far
    cached,         \* digests held by the file cacher
    queue,          \* printjob ids handed to printing_service.new_printjob
    submit,         \* per request: position and locals of PrintingHandler.post
    nsubmits        \* print submissions started so far

VARIABLES
    starting_time,  \* Participation.starting_time of each user's participation
    start,          \* per request: position and locals of StartHandler.post
    nstarts         \* start requests so far

authVars == <<users, parts, contest, login, nlogins>>
startVars == <<starting_time, start, nstarts>>
feedVars == <<unread, fetched, nfetches, delivered, counted>>
printVars == <<printing_enabled, printjobs, puts, cached, queue, submit,
               nsubmits>>
vars == <<users, parts, contest, login, nlogins, now, notifications, npushed,
          unread, fetched, nfetches, delivered, counted, printing_enabled, printjobs, puts, cached,
          queue, submit, nsubmits, starting_time, start, nstarts>>

\* the <contest>_login cookie: (username, stored password, make_timestamp())
NoCookie == [username |-> None, password |-> NoPassword, timestamp |-> 0]

IdleLogin ==
    [pc |-> "idle", username |-> None, user |-> None, found |-> 0,
     part |-> 0, password |-> None, ip |-> None, outcome |-> None,
     cookie |-> NoCookie, before |-> NoPassword, after |-> NoPassword,
     redirect |-> None]

\* a participation created hidden
NewParticipationHidden(id, user) ==
    [id |-> id, user |-> user, password |-> NoPassword, ip |-> None,
     hidden |-> TRUE]
\* Participation(user=user, contest=self.contest): the other columns take
\* their defaults
NewParticipation(id, user) ==
    [id |-> id, user |-> user, password |-> NoPassword, ip |-> None,
     hidden |-> FALSE]

Row(id) == CHOOSE p \in parts : p.id = id

\* query(Participation).filter(contest == self.contest)
\*                     .filter(user == user): the rows .first() can return
ParticipationQueryNoUserFilter(table, user) == table
ParticipationQuery(table, user) == {p \in table : p.user = user}

\* UNIQUE (contest_id, user_id) of the participations table: a commit that
\* would store a second row for the pair raises IntegrityError
UniqueViolation(table, user) == \E p \in table : p.user = user

\* lines 130-133: the object whose password is checked
CorrectPasswordObjAlwaysUser(p) == "user"
CorrectPasswordObj(p) ==
    IF p.password = NoPassword THEN "user" ELSE "participation"

CorrectPassword(p) ==
    IF CorrectPasswordObj(p) = "user" THEN users[p.user] ELSE p.password

\* ------------------------------------------------------------------------
\* Init
\* ------------------------------------------------------------------------
InitAuth ==
    /\ \E s \in StoredOf("secret") :
           users = [u \in Users |->
                       IF u = "alice" THEN s ELSE BcryptPw("secret", "s0")]
    /\ \E pw \in {NoPassword} \cup StoredOf("contestpw"),
          ip \in {None, "10.0.0.1"}, hidden \in BOOLEAN :
           parts = {[id |-> 1, user |-> "alice", password |-> pw,
                     ip |-> ip, hidden |-> hidden]}
    /\ contest \in [open_participation : BOOLEAN, ip_restriction : BOOLEAN,
                    block_hidden_participations : BOOLEAN]
    /\ login = [r \in Reqs |-> IdleLogin]
    /\ nlogins = 0

\* ------------------------------------------------------------------------
\* LoginHandler.post
\* ------------------------------------------------------------------------
\* lines 103-111: read the arguments, query the user and the participation
LoginQuery(r) ==
    /\ login[r].pc \in {"idle", "done"}
    /\ nlogins < MaxLogins
    /\ nlogins' = nlogins + 1
    /\ \E username \in Usernames :
         LET user == IF username \in Users THEN username ELSE None
             rows == ParticipationQuery(parts, user)
         IN  \E found \in (IF rows = {} THEN {0} ELSE {p.id : p \in rows}) :
               login' = [login EXCEPT ![r] =
                   [IdleLogin EXCEPT !.pc = "queried", !.username = username,
                                     !.user = user, !.found = found,
                                     !.part = found]]
    /\ UNCHANGED <<startVars, users, parts, contest, now, notifications, npushed,
                   feedVars, printVars>>

\* lines 113-126: no user, no participation, participation on the fly
LoginResolve(r) ==
    /\ login[r].pc = "queried"
    /\ LET l == login[r] IN
         IF l.user = None
         THEN /\ login' = [login EXCEPT ![r].pc = "done",
                                        ![r].outcome = "NoSuchUser",
                                        ![r].redirect = "error_page"]
              /\ UNCHANGED parts
         ELSE IF l.part # 0
         THEN /\ login' = [login EXCEPT ![r].pc = "resolved"]
              /\ UNCHANGED parts
         ELSE IF ~contest.open_participation
         THEN /\ login' = [login EXCEPT ![r].pc = "done",
                                        ![r].outcome = "NotEnrolled",
                                        ![r].redirect = "error_page"]
              /\ UNCHANGED parts
         ELSE IF UniqueViolation(parts, l.user)
         THEN \* the commit of line 122 raises: the request ends in a 500,
              \* without a redirect
              /\ login' = [login EXCEPT ![r].pc = "done",
                                        ![r].outcome = "IntegrityError"]
              /\ UNCHANGED parts
         ELSE LET id == Cardinality(parts) + 1 IN
              /\ parts' = parts \cup {NewParticipation(id, l.user)}
              /\ login' = [login EXCEPT ![r].pc = "resolved", ![r].part = id]
    /\ UNCHANGED <<startVars, users, contest, nlogins, now, notifications, npushed,
                   feedVars, printVars>>

\* the checks without the one of the hidden flag
LoginOutcomeNoHiddenCheck(p, correct_password, password, remote_ip) ==
    IF ~validate_password(correct_password, password) THEN "BadPassword"
    ELSE IF contest.ip_restriction /\ p.ip # None
            /\ ~check_ip(remote_ip, p.ip) THEN "IPRejected"
    ELSE "OK"
\* the checks with the address and the hidden flag tested first
LoginOutcomeAccessFirst(p, correct_password, password, remote_ip) ==
    IF contest.ip_restriction /\ p.ip # None /\ ~check_ip(remote_ip, p.ip)
    THEN "IPRejected"
    ELSE IF p.hidden /\ contest.block_hidden_participations
    THEN "HiddenRejected"
    ELSE IF ~validate_password(correct_password, password)
    THEN "BadPassword"
    ELSE "OK"
\* lines 138-156: the first of the three checks that fails ends the request
LoginOutcome(p, correct_password, password, remote_ip) ==
    IF ~validate_password(correct_password, password) THEN "BadPassword"
    ELSE IF contest.ip_restriction /\ p.ip # None
            /\ ~check_ip(remote_ip, p.ip) THEN "IPRejected"
    ELSE IF p.hidden /\ contest.block_hidden_participations
    THEN "HiddenRejected"
    ELSE "OK"

\* the cookie with the user's password whichever record was checked
LoginCookieUserPassword(p, correct_password, timestamp) ==
    [username |-> p.user, password |-> users[p.user], timestamp |-> timestamp]
\* lines 160-164: (user.username, correct_password_obj.password,
\* make_timestamp())
LoginCookie(p, correct_password, timestamp) ==
    [username |-> p.user, password |-> correct_password,
     timestamp |-> timestamp]

\* lines 128-165: password, IP and hidden checks, login cookie.
\* The password and the address of the request are read here.
LoginVerify(r) ==
    /\ login[r].pc = "resolved"
    /\ \E password \in Passwords, ip \in Addresses :
         LET p == Row(login[r].part)
             stored == CorrectPassword(p)
             outcome == LoginOutcome(p, stored, password, ip)
         IN  login' = [login EXCEPT
                 ![r].pc = "done", ![r].password = password, ![r].ip = ip,
                 ![r].outcome = outcome, ![r].before = stored,
                 ![r].redirect =
                     IF outcome = "OK" THEN "next_page" ELSE "error_page",
                 ![r].after = stored,
                 ![r].cookie =
                     IF outcome = "OK"
                     THEN LoginCookie(p, stored, now)
                     ELSE NoCookie]
    /\ UNCHANGED <<startVars, users, parts, contest, nlogins, now, notifications,
                   npushed, feedVars, printVars>>

\* ------------------------------------------------------------------------
\* Durable notification sources (contest.announcements,
\* participation.messages, participation.questions), in relationship order.
\* Timestamps are whole seconds.
\* ------------------------------------------------------------------------
\* a reply_timestamp that is None
NoTime == -1

Announcements ==
    << [timestamp |-> 1, subject |-> "a1", text |-> "ta1"],
       [timestamp |-> 2, subject |-> "a2", text |-> "ta2"] >>

Messages(u) ==
    IF u = "alice"
    THEN << [timestamp |-> 2, subject |-> "m1", text |-> "tm1"] >>
    ELSE << >>

Questions(u) ==
    IF u = "alice"
    THEN << [reply_timestamp |-> NoTime, reply_subject |-> None,
             reply_text |-> None],
            [reply_timestamp |-> 1, reply_subject |-> None,
             reply_text |-> "yes"] >>
    ELSE << [reply_timestamp |-> 2, reply_subject |-> "no comment",
             reply_text |-> None] >>

\* an entry of the JSON list the handler writes
Entry(type, timestamp, subject, text, level, n) ==
    [type |-> type, timestamp |-> timestamp, subject |-> subject,
     text |-> text, level |-> level, n |-> n]

\* the entries made of the elements of s that satisfy Keep, in order
SelectSeq2(s, Keep(_), Make(_)) ==
    LET kept == SelectSeq(s, Keep)
    IN  [i \in 1..Len(kept) |-> Make(kept[i])]

\* lines 220-221, 235-236, 247-248: the window of a fetch
InWindowClosedBelow(timestamp, last_notification, timestamp_now) ==
    timestamp >= last_notification /\ timestamp < timestamp_now
InWindow(timestamp, last_notification, timestamp_now) ==
    timestamp > last_notification /\ timestamp < timestamp_now

\* lines 249-255: subject and text of a question's reply
ReplySubject(q) ==
    IF q.reply_subject = None THEN q.reply_text ELSE q.reply_subject
ReplyText(q) ==
    IF q.reply_subject = None THEN ""
    ELSE IF q.reply_text = None THEN "" ELSE q.reply_text

\* lines 214-265: res before the cookie is updated
DurableRes(u, last_notification, timestamp_now) ==
    LET KeepA(a) == InWindow(a.timestamp, last_notification, timestamp_now)
        MakeA(a) == Entry("announcement", a.timestamp, a.subject, a.text,
                          "", 0)
        MakeM(m) == Entry("message", m.timestamp, m.subject, m.text, "", 0)
        KeepQ(q) == /\ q.reply_timestamp # NoTime
                    /\ InWindow(q.reply_timestamp, last_notification,
                                timestamp_now)
        MakeQ(q) == Entry("question", q.reply_timestamp, ReplySubject(q),
                          ReplyText(q), "", 0)
    IN  SelectSeq2(Announcements, KeepA, MakeA)
        \o SelectSeq2(Messages(u), KeepA, MakeM)
        \o SelectSeq2(Questions(u), KeepQ, MakeQ)

\* lines 278-286: the entries of the user's queued notifications
RECURSIVE AdHocRes(_)
AdHocRes(list) ==
    IF list = << >> THEN << >>
    ELSE << Entry("notification", Head(list).timestamp, Head(list).subject,
                  Head(list).text, Head(list).level, Head(list).n) >>
         \o AdHocRes(Tail(list))

\* line 287: del notifications[username]; a missing key is an empty list
DrainKeep(table, username) == table
Drain(table, username) == [table EXCEPT ![username] = << >>]

\* lines 270-272: the value written to the unread_count cookie; NoCount is
\* the missing cookie
NoCount == -1
\* the count of this response alone
NextUnreadCountOfResponse(prev_unread_count, res, adhoc) == Len(res)
NextUnreadCountAll(prev_unread_count, res, adhoc) ==
    Len(res) + Len(adhoc)
    + (IF prev_unread_count # NoCount THEN prev_unread_count ELSE 0)
NextUnreadCount(prev_unread_count, res, adhoc) ==
    Len(res) + (IF prev_unread_count # NoCount THEN prev_unread_count ELSE 0)

\* service.add_notification(username, timestamp, subject, text, level):
\* appends the tuple to the user's list; n names the tuple
AddNotification(table, username, timestamp, subject, text, level, n) ==
    [table EXCEPT ![username] =
        Append(@, [timestamp |-> timestamp, subject |-> subject,
                   text |-> text, level |-> level, n |-> n])]

\* the text that goes with a subject (lines 339-340, 353, 365-366, 382, 403)
TextOf(subject) ==
    IF subject = "Too many print jobs!"
    THEN "You have reached the maximum limit of at most 2 print jobs."
    ELSE IF subject = "Invalid format!" THEN "Please select the correct files."
    ELSE IF subject = "File too big!"
    THEN "Each file must be at most 2 bytes long."
    ELSE IF subject = "Print job storage failed!" THEN "Please try again."
    ELSE "Your print job has been received."

NOTIFICATION_ERROR == "error"
NOTIFICATION_SUCCESS == "success"

\* ------------------------------------------------------------------------
\* Printing: configuration and uploads
\* ------------------------------------------------------------------------
max_jobs_per_user == 2      \* config.max_jobs_per_user
max_print_length == 2       \* config.max_print_length

FieldNames == {"file", "other"}
\* self.request.files: field name -> number of files sent under it (one or
\* two under file, one under any other field)
Uploads ==
    {f \in UNION {[S -> 1..2] : S \in SUBSET FieldNames} :
        "other" \in DOMAIN f => f["other"] = 1}
\* the lengths on both sides of the limit
BodyLengths == max_print_length..(max_print_length + 1)
\* len(self.request.files["file"][0]["body"]); 0 when there is no such file
BodiesOf(files) == IF "file" \in DOMAIN files THEN BodyLengths ELSE {0}

\* lines 347-349
BadShapeKeysOnly(files) == DOMAIN files # {"file"}
BadShape(files) ==
    \/ \E k \in DOMAIN files : files[k] # 1
    \/ DOMAIN files # {"file"}

\* line 361
TooBigOrEqual(length) == length >= max_print_length
TooBig(length) == length > max_print_length

\* line 335
QuotaReachedStrict(old_count) == max_jobs_per_user < old_count
QuotaReached(old_count) == max_jobs_per_user <= old_count

\* lines 331-334
OldCount(table, user) == Cardinality({j \in table : j.user = user})

\* file_cacher.put_file_content(data, description): the digest of the data
DigestOf(length) == [sha1 |-> length]
NoDigest == [sha1 |-> 0]

IdleSubmit ==
    [pc |-> "idle", user |-> None, timestamp |-> 0, old_count |-> 0,
     files |-> << >>, length |-> 0, digest |-> NoDigest, outcome |-> None,
     pushed |-> << >>, redirect |-> None, put |-> FALSE, job |-> 0,
     enqueued |-> FALSE]

LastTwo(s) == IF Len(s) > 2 THEN Tail(s) ELSE s

\* ------------------------------------------------------------------------
\* The clock
\* ------------------------------------------------------------------------
Tick ==
    /\ now < MaxTime
    /\ now' = now + 1
    /\ UNCHANGED <<startVars, authVars, notifications, npushed, feedVars,
                   printVars>>

\* ------------------------------------------------------------------------
\* StartHandler.post, for requests with a current user
\* ------------------------------------------------------------------------
IdleStart ==
    [pc |-> "idle", user |-> None, timestamp |-> 0, seen |-> NoTime,
     outcome |-> None]

\* the phase of a participation in a contest that runs over the whole of the
\* behaviour and gives each user their own time: -1 until the user starts,
\* 0 afterwards
actual_phase(participation_starting_time) ==
    IF participation_starting_time = NoTime THEN -1 ELSE 0

\* actual_phase_required(-1) that lets every phase through
PhaseAllowedAlways(phase) == TRUE
\* line 176: actual_phase_required(-1)
PhaseAllowed(phase) == phase = -1

\* lines 175-178: the request is prepared (self.timestamp, the current
\* user's participation as the database holds it) and the phase is checked;
\* in another phase the decorator redirects and post is not run
StartCheck(r) ==
    /\ start[r].pc \in {"idle", "done"}
    /\ nstarts < MaxStarts
    /\ nstarts' = nstarts + 1
    /\ \E u \in Users :
         LET seen == starting_time[u]
             slot == [IdleStart EXCEPT !.user = u, !.seen = seen]
         IN  IF PhaseAllowed(actual_phase(seen))
             THEN start' = [start EXCEPT ![r] =
                      [slot EXCEPT !.pc = "checked", !.timestamp = now]]
             ELSE start' = [start EXCEPT ![r] =
                      [slot EXCEPT !.pc = "done", !.outcome = "Redirected"]]
    /\ UNCHANGED <<authVars, now, notifications, npushed, feedVars,
                   printVars, starting_time>>

\* lines 179-185: starting_time is assigned and committed
StartCommit(r) ==
    /\ start[r].pc = "checked"
    /\ starting_time' = [starting_time EXCEPT
                             ![start[r].user] = start[r].timestamp]
    /\ start' = [start EXCEPT ![r].pc = "done", ![r].outcome = "Started"]
    /\ UNCHANGED <<authVars, now, notifications, npushed, feedVars,
                   printVars, nstarts>>

\* ------------------------------------------------------------------------
\* NotificationsHandler.get, for requests with a current user
\* ------------------------------------------------------------------------
\* lines 206-289.  The handler is synchronous and the notifications dict
\* belongs to the serving process: a fetch runs from its first line to its
\* last with no other request of the process in between.  A last_notification
\* of MaxTime - 1 or more selects nothing, as every later value does.
Fetch ==
    /\ nfetches < MaxFetches
    /\ nfetches' = nfetches + 1
    /\ \E u \in Fetchers, last_notification \in 0..(MaxTime - 1) :
         LET res == DurableRes(u, last_notification, now)
             adhoc == AdHocRes(notifications[u])
             next_unread_count == NextUnreadCount(unread[u], res, adhoc)
         IN  /\ unread' = [unread EXCEPT ![u] = next_unread_count]
             /\ notifications' = Drain(notifications, u)
             /\ fetched' = LastTwo(Append(fetched,
                    [user |-> u, last |-> last_notification,
                     timestamp |-> now, durable |-> res, adhoc |-> adhoc,
                     prev |-> unread[u], next |-> next_unread_count,
                     npushed |-> npushed]))
             /\ delivered' = [n \in DOMAIN delivered |->
                    IF \E i \in DOMAIN adhoc : adhoc[i].n = n
                    THEN delivered[n] + 1 ELSE delivered[n]]
             /\ counted' = [counted EXCEPT ![u] = @ + Len(res)]
    /\ UNCHANGED <<startVars, authVars, now, npushed, printVars>>

\* ------------------------------------------------------------------------
\* PrintingHandler.post, for requests that passed tornado.web.authenticated
\* and actual_phase_required(0)
\* ------------------------------------------------------------------------
\* Notify without the add_notification call
NotifySkipped(r, slot, outcome, subject, level) ==
    /\ UNCHANGED <<notifications, npushed, delivered>>
    /\ submit' = [submit EXCEPT ![r] =
           [slot EXCEPT !.pc = "done", !.outcome = outcome, !.timestamp = 0,
                        !.redirect = "printing"]]

\* one add_notification call followed by redirect(fallback_page) and return;
\* slot holds the locals of the request at that point.  The finished request
\* keeps its outcome; self.timestamp is gone with the handler object.
Notify(r, slot, outcome, subject, level) ==
    /\ notifications' = AddNotification(notifications, slot.user,
                            slot.timestamp, subject, TextOf(subject), level,
                            npushed + 1)
    /\ npushed' = npushed + 1
    /\ delivered' = Append(delivered, 0)
    /\ submit' = [submit EXCEPT ![r] =
           [slot EXCEPT !.pc = "done", !.outcome = outcome, !.timestamp = 0,
                        !.pushed = Append(@, level),
                        !.redirect = "printing"]]

\* lines 324-343: feature gate, count of the user's print jobs, quota.
\* The request arrives with its uploaded files.
SubmitQuota(r) ==
    /\ submit[r].pc \in {"idle", "done"}
    /\ nsubmits < MaxSubmits
    /\ nsubmits' = nsubmits + 1
    /\ \E u \in Users, files \in Uploads : \E length \in BodiesOf(files) :
         LET old_count == OldCount(printjobs, u)
             slot == [IdleSubmit EXCEPT !.user = u, !.timestamp = now,
                                        !.old_count = old_count,
                                        !.files = files, !.length = length]
         IN  IF ~printing_enabled
             THEN \* raise tornado.web.HTTPError(404)
                  /\ submit' = [submit EXCEPT ![r] =
                         [slot EXCEPT !.pc = "done", !.outcome = "NotFound", !.timestamp = 0,
                                      !.old_count = 0]]
                  /\ UNCHANGED <<notifications, npushed, delivered>>
             ELSE IF QuotaReached(old_count)
             THEN Notify(r, slot, "QuotaExceeded", "Too many print jobs!",
                         NOTIFICATION_ERROR)
             ELSE /\ submit' = [submit EXCEPT ![r] =
                         [slot EXCEPT !.pc = "counted"]]
                  /\ UNCHANGED <<notifications, npushed, delivered>>
    /\ UNCHANGED <<startVars, authVars, now, unread, fetched, nfetches, counted,
                   printing_enabled, printjobs, puts, cached, queue>>

\* the two checks with the size tested first
UploadRefusalSizeFirst(files, length) ==
    IF TooBig(length) THEN "TooLarge"
    ELSE IF BadShape(files) THEN "InvalidFormat"
    ELSE None
\* lines 347-368: the shape check returns before the body is read and its
\* size checked
UploadRefusal(files, length) ==
    IF BadShape(files) THEN "InvalidFormat"
    ELSE IF TooBig(length) THEN "TooLarge"
    ELSE None

\* lines 345-384: shape and size of the upload, put_file_content
SubmitStore(r) ==
    /\ submit[r].pc = "counted"
    /\ LET files == submit[r].files
           length == submit[r].length
           sized == submit[r]
       IN  IF UploadRefusal(files, length) = "InvalidFormat"
           THEN /\ Notify(r, sized, "InvalidFormat", "Invalid format!",
                          NOTIFICATION_ERROR)
                /\ UNCHANGED <<puts, cached>>
           ELSE IF UploadRefusal(files, length) = "TooLarge"
           THEN /\ Notify(r, sized, "TooLarge", "File too big!",
                          NOTIFICATION_ERROR)
                /\ UNCHANGED <<puts, cached>>
           ELSE \E fails \in BOOLEAN :
                   /\ puts' = puts + 1
                   /\ IF fails
                      THEN /\ Notify(r, [sized EXCEPT !.put = TRUE],
                                     "StorageFailed",
                                     "Print job storage failed!",
                                     NOTIFICATION_ERROR)
                           /\ UNCHANGED cached
                      ELSE /\ submit' = [submit EXCEPT ![r] =
                                  [sized EXCEPT !.pc = "stored",
                                                !.put = TRUE,
                                                !.digest = DigestOf(length)]]
                           /\ cached' = cached \cup {DigestOf(length)}
                           /\ UNCHANGED <<notifications, npushed, delivered>>
    /\ UNCHANGED <<startVars, authVars, now, unread, fetched, nfetches, counted,
                   printing_enabled, printjobs, queue, nsubmits>>

\* the row without the digest put_file_content returned
NewPrintJobNoDigest(id, timestamp, user, digest) ==
    [id |-> id, timestamp |-> timestamp, user |-> user, digest |-> NoDigest]
\* lines 390-394: PrintJob(timestamp, participation, filename, digest); id is
\* the key the commit gives the row
NewPrintJob(id, timestamp, user, digest) ==
    [id |-> id, timestamp |-> timestamp, user |-> user, digest |-> digest]

\* lines 386-404: PrintJob row, commit, new_printjob, success notification
SubmitCommit(r) ==
    /\ submit[r].pc = "stored"
    /\ LET id == Cardinality(printjobs) + 1
           printjob == NewPrintJob(id, submit[r].timestamp, submit[r].user,
                                   submit[r].digest)
       IN  /\ printjobs' = printjobs \cup {printjob}
           /\ queue' = Append(queue, id)
           /\ Notify(r, [submit[r] EXCEPT !.job = id, !.enqueued = TRUE],
                     "OK", "Print job received", NOTIFICATION_SUCCESS)
    /\ UNCHANGED <<startVars, authVars, now, unread, fetched, nfetches, counted,
                   printing_enabled, puts, cached, nsubmits>>

\* ------------------------------------------------------------------------
\* Specifications
\* ------------------------------------------------------------------------
\* the part of the state the other specification's handlers own
QuietAuth ==
    /\ users = [u \in Users |-> BcryptPw("secret", "s0")]
    /\ parts = {[id |-> 1, user |-> "alice", password |-> NoPassword,
                 ip |-> None, hidden |-> FALSE],
                [id |-> 2, user |-> "bob", password |-> NoPassword,
                 ip |-> None, hidden |-> FALSE]}
    /\ contest = [open_participation |-> FALSE, ip_restriction |-> FALSE,
                  block_hidden_participations |-> FALSE]
    /\ login = [r \in Reqs |-> IdleLogin]
    /\ nlogins = 0

QuietStart ==
    /\ starting_time = [u \in Users |-> NoTime]
    /\ start = [r \in Reqs |-> IdleStart]
    /\ nstarts = 0

QuietFeed ==
    /\ notifications = [u \in Users |-> << >>]
    /\ npushed = 0
    /\ unread = [u \in Users |-> NoCount]
    /\ fetched = << >>
    /\ nfetches = 0
    /\ delivered = << >>
    /\ counted = [u \in Users |-> 0]

QuietPrint ==
    /\ printjobs = {}
    /\ puts = 0
    /\ cached = {}
    /\ queue = << >>
    /\ submit = [r \in Reqs |-> IdleSubmit]
    /\ nsubmits = 0

\* Logins: any stored scheme, any contest settings
InitLogin ==
    /\ InitAuth
    /\ now = 0
    /\ QuietFeed
    /\ printing_enabled = TRUE
    /\ QuietPrint
    /\ QuietStart

NextAuth ==
    \E r \in Reqs : LoginQuery(r) \/ LoginResolve(r) \/ LoginVerify(r)

SpecAuth == InitLogin /\ [][NextAuth]_vars

\* Print submissions of two logged-in users, no job printed yet
InitPrint ==
    /\ QuietAuth
    /\ now \in {0, MaxTime}
    /\ QuietFeed
    /\ printing_enabled \in BOOLEAN
    /\ QuietPrint
    /\ QuietStart

NextPrint ==
    \E r \in Reqs : SubmitQuota(r) \/ SubmitStore(r) \/ SubmitCommit(r)

SpecPrint == InitPrint /\ [][NextPrint]_vars

\* Notification fetches of two logged-in users who have used up their print
\* quota: each of their submissions ends at the quota check with one
\* notification pushed, before the upload is looked at: the submissions are
\* sent without files
InitFeed ==
    /\ QuietAuth
    /\ now = 0
    /\ QuietFeed
    /\ printing_enabled = TRUE
    /\ printjobs = {[id |-> i, timestamp |-> 0,
                     user |-> IF i <= max_jobs_per_user THEN "alice"
                              ELSE "bob",
                     digest |-> DigestOf(1)] :
                    i \in 1..(2 * max_jobs_per_user)}
    /\ puts = 2 * max_jobs_per_user
    /\ cached = {DigestOf(1)}
    /\ queue = [i \in 1..(2 * max_jobs_per_user) |-> i]
    /\ submit = [r \in Reqs |-> IdleSubmit]
    /\ nsubmits = 0
    /\ QuietStart

NextFeed ==
    \/ Tick
    \/ Fetch
    \/ \E r \in {1} : /\ npushed < MaxPushes
                      /\ SubmitQuota(r)
                      /\ submit'[r].files = << >>

SpecFeed == InitFeed /\ [][NextFeed]_vars

\* Start requests of two logged-in users while the clock runs
InitStart ==
    /\ QuietAuth
    /\ now = 0
    /\ QuietFeed
    /\ printing_enabled = TRUE
    /\ QuietPrint
    /\ QuietStart

NextStart ==
    \/ Tick
    \/ \E r \in Reqs : StartCheck(r) \/ StartCommit(r)

SpecStart == InitStart /\ [][NextStart]_vars

\* ------------------------------------------------------------------------
\* Properties of Login (SpecAuth)
\* ------------------------------------------------------------------------
\* the record a login is to be verified against: the participation's own
\* record when it is set, otherwise the user's
EffectiveRecord(p) ==
    IF p.password # NoPassword THEN p.password ELSE users[p.user]

\* the request went through the password verification of lines 138-142
Verified(r) ==
    /\ login[r].pc = "done"
    /\ login[r].outcome \in {"BadPassword", "IPRejected", "HiddenRejected",
                             "OK"}

\* C1: a login that succeeds against a record under the legacy-keyed-hash
\* scheme leaves the stored record under the strong-salted-hash scheme, and
\* later successful logins leave it there.
C1_LegacyUpgradedOnLogin ==
    \A r \in Reqs :
        (/\ Verified(r)
         /\ login[r].outcome = "OK"
         /\ Scheme(login[r].before) = "legacy-keyed-hash")
        => Scheme(EffectiveRecord(Row(login[r].part))) = "strong-salted-hash"

C3_OneParticipationPerUser ==
    /\ \A p, q \in parts : p.user = q.user => p = q
    /\ \A r \in Reqs :
          (/\ contest.open_participation
           /\ login[r].user # None
           /\ login[r].pc \in {"resolved", "done"})
          => Cardinality({p \in parts : p.user = login[r].user}) = 1

\* two logins of a user without participation both saw none, both went
\* through the enrolment step, and one participation exists
C3_Witness ==
    /\ \A r \in Reqs :
          /\ login[r].user = "bob"
          /\ login[r].found = 0
          /\ login[r].pc \in {"resolved", "done"}
    /\ \E r \in Reqs : login[r].outcome = "IntegrityError"
    /\ Cardinality({p \in parts : p.user = "bob"}) = 1

\* C12: the login cookie of a successful login holds the username and the
\* effective password record, the participation's own when it is set and the
\* user's otherwise, as the database holds it when the login has completed.
C12_TokenEmbedsEffectiveRecord ==
    \A r \in Reqs :
        (login[r].pc = "done" /\ login[r].outcome = "OK")
        => /\ login[r].cookie.username = login[r].username
           /\ login[r].cookie.username = Row(login[r].part).user
           /\ login[r].cookie.password = EffectiveRecord(Row(login[r].part))
           /\ login[r].cookie.password # NoPassword

\* one login succeeded against the participation's own record and one
\* against the user's record, and each cookie holds the record it used
C12_Witness ==
    /\ login[1].outcome = "OK"
    /\ Row(login[1].part).password # NoPassword
    /\ login[1].cookie.password = Row(login[1].part).password
    /\ login[1].cookie.password # users[login[1].username]
    /\ login[2].outcome = "OK"
    /\ Row(login[2].part).password = NoPassword
    /\ login[2].cookie.password = users[login[2].username]

\* the password of the request is the one the effective record was made of
PasswordMatched(r) ==
    EffectiveRecord(Row(login[r].part)).of = login[r].password

\* the contest restricts addresses, the participation is bound to one and
\* the request comes from another
AddressRefused(r) ==
    /\ contest.ip_restriction
    /\ Row(login[r].part).ip # None
    /\ login[r].ip # Row(login[r].part).ip

\* the participation is hidden and the contest blocks hidden participations
HiddenRefused(r) ==
    Row(login[r].part).hidden /\ contest.block_hidden_participations

\* C13: a login that reaches the password verification ends in BadPassword
\* exactly when the password does not match, whatever the address and the
\* hidden flag; in IPRejected exactly when the password matched and the
\* address is refused; in HiddenRejected exactly when the password matched,
\* the address is not refused and the hidden participation is blocked.
C13_AccessChecksAfterPassword ==
    \A r \in Reqs :
        Verified(r) =>
            /\ login[r].outcome = "BadPassword" <=> ~PasswordMatched(r)
            /\ login[r].outcome = "IPRejected"
                   <=> (PasswordMatched(r) /\ AddressRefused(r))
            /\ login[r].outcome = "HiddenRejected"
                   <=> (/\ PasswordMatched(r)
                        /\ ~AddressRefused(r)
                        /\ HiddenRefused(r))

\* a login with a wrong password from a refused address into a blocked
\* hidden participation ended in BadPassword, and one with the matching
\* password ended in IPRejected
C13_Witness ==
    /\ \A r \in Reqs : Verified(r) /\ AddressRefused(r) /\ HiddenRefused(r)
    /\ ~PasswordMatched(1)
    /\ login[1].outcome = "BadPassword"
    /\ PasswordMatched(2)
    /\ login[2].outcome = "IPRejected"

\* no login request is between two of its steps
LoginsCompleted == \A r \in Reqs : login[r].pc \in {"idle", "done"}

\* C15: under every interleaving of the logins, a password record under the
\* strong-salted-hash scheme stays under it, and when no login is under way
\* and one has succeeded against a legacy-keyed-hash record, the record that
\* login used is stored under the strong-salted-hash scheme.
C15_ConcurrentUpgradeConverges ==
    /\ [][/\ \A u \in Users :
               Scheme(users[u]) = "strong-salted-hash"
               => Scheme(users'[u]) = "strong-salted-hash"
          /\ \A p \in parts :
               (p.password # NoPassword
                   /\ Scheme(p.password) = "strong-salted-hash")
               => \E q \in parts' :
                     /\ q.id = p.id
                     /\ Scheme(q.password) = "strong-salted-hash"]_vars
    /\ [](LoginsCompleted =>
             \A r \in Reqs :
                 (/\ login[r].outcome = "OK"
                  /\ Scheme(login[r].before) = "legacy-keyed-hash")
                 => Scheme(EffectiveRecord(Row(login[r].part)))
                        = "strong-salted-hash")

\* the login found the participation of its user or created it
Resolved(r) ==
    /\ login[r].part # 0
    /\ \E p \in parts : p.id = login[r].part /\ p.user = login[r].user

\* the user exists, the login has its participation, the password is the
\* one of the effective record and neither the address nor the hidden flag
\* is refused
MayLogIn(r) ==
    /\ login[r].username \in Users
    /\ Resolved(r)
    /\ PasswordMatched(r)
    /\ ~AddressRefused(r)
    /\ ~HiddenRefused(r)

\* C18: a finished login has set the login cookie exactly when its user
\* exists, its participation was found or created, the password verifies
\* against the effective record and the address and hidden checks pass; a
\* login that ended in NoSuchUser, NotEnrolled, BadPassword, IPRejected or
\* HiddenRejected has set no cookie and redirected to the error page; a
\* login under way has set no cookie.
C18_CookieIffAllChecksPass ==
    \A r \in Reqs :
        IF login[r].pc = "done"
        THEN /\ login[r].cookie # NoCookie <=> MayLogIn(r)
             /\ login[r].outcome = "OK" <=> MayLogIn(r)
             /\ login[r].outcome = "OK" => login[r].redirect = "next_page"
             /\ login[r].outcome \in {"NoSuchUser", "NotEnrolled",
                                      "BadPassword", "IPRejected",
                                      "HiddenRejected"}
                => /\ login[r].cookie = NoCookie
                   /\ login[r].redirect = "error_page"
        ELSE login[r].cookie = NoCookie

\* a login of a user without participation created it and got the cookie,
\* and a login with an unknown username was redirected to the error page
C18_Witness ==
    /\ login[1].outcome = "OK"
    /\ login[1].found = 0
    /\ Resolved(1)
    /\ login[1].cookie.username = login[1].username
    /\ login[2].outcome = "NoSuchUser"
    /\ login[2].cookie = NoCookie
    /\ login[2].redirect = "error_page"

\* C19: no step of a login changes or removes a User record, a password
\* record or an existing participation; the one change a login makes is the
\* participation it creates for its user, who had none, in a contest with
\* open participation, before the password is verified: the row is there
\* when the login has failed on the password or on an access check.
C19_FailedLoginFrame ==
    /\ [][/\ users' = users
          /\ parts \subseteq parts'
          /\ parts' # parts =>
                \E r \in Reqs :
                    /\ login[r].pc = "queried"
                    /\ login'[r].pc = "resolved"
                    /\ login[r].user \in Users
                    /\ login[r].found = 0
                    /\ contest.open_participation
                    /\ ~\E p \in parts : p.user = login[r].user
                    /\ parts' = parts \cup
                           {[id |-> login'[r].part, user |-> login[r].user,
                             password |-> NoPassword, ip |-> None,
                             hidden |-> FALSE]}]_vars
    /\ [](\A r \in Reqs :
             (/\ login[r].pc = "done"
              /\ login[r].outcome \in {"BadPassword", "IPRejected",
                                       "HiddenRejected"}
              /\ login[r].found = 0)
             => /\ contest.open_participation
                /\ Resolved(r)
                /\ login[r].cookie = NoCookie)

\* a login created the participation of its user and then failed on the
\* password: the participation is stored
C19_Witness ==
    \E r \in Reqs :
        /\ login[r].pc = "done"
        /\ login[r].outcome = "BadPassword"
        /\ login[r].found = 0
        /\ login[r].username = "bob"
        /\ \E p \in parts : p.user = "bob" /\ p.id = login[r].part
        /\ Cardinality(parts) = 2

\* ------------------------------------------------------------------------
\* Properties of the notification feed (SpecFeed)
\* ------------------------------------------------------------------------
\* the names of the pushed tuples a response carries
AdHocNames(response) ==
    {response.adhoc[i].n : i \in DOMAIN response.adhoc}

\* the two last responses answer the same user with the same arguments
SameCall(a, b) ==
    a.user = b.user /\ a.last = b.last /\ a.timestamp = b.timestamp

\* C4: a pushed notification is in at most one response; two responses never
\* share one; and a fetch repeated with the same arguments, nothing having
\* been pushed since the fetch before it, gets no notification.
C4_AdHocAtMostOnce ==
    /\ \A n \in DOMAIN delivered : delivered[n] <= 1
    /\ Len(fetched) = 2 =>
          /\ AdHocNames(fetched[1]) \cap AdHocNames(fetched[2]) = {}
          /\ (SameCall(fetched[1], fetched[2])
                 /\ fetched[2].npushed = fetched[1].npushed)
             => fetched[2].adhoc = << >>

\* a fetch drained notifications and the same fetch, repeated, got none
C4_Witness ==
    /\ Len(fetched) = 2
    /\ SameCall(fetched[1], fetched[2])
    /\ fetched[2].npushed = fetched[1].npushed
    /\ fetched[1].adhoc # << >>
    /\ fetched[2].adhoc = << >>
    /\ \E n \in DOMAIN delivered : delivered[n] = 1

\* the durable entries of the later response are all younger than t
DurablesAfter(response, t) ==
    \A i \in DOMAIN response.durable : response.durable[i].timestamp > t

\* C6 as stated: of two successive fetches of a user, the second with the
\* greater last_notification, the second returns no durable event stamped at
\* or before the server time of the first.
C6_MonotonicByLastSeen ==
    (/\ Len(fetched) = 2
     /\ fetched[1].user = fetched[2].user
     /\ fetched[2].last > fetched[1].last)
    => DurablesAfter(fetched[2], fetched[1].timestamp)

\* C6 as amended: of two successive fetches of a user, the second with a
\* last_notification at or after the server time of the first, the second
\* returns no durable event stamped at or before that server time.
C6_MonotonicFromServerNow ==
    (/\ Len(fetched) = 2
     /\ fetched[1].user = fetched[2].user
     /\ fetched[2].last >= fetched[1].timestamp)
    => DurablesAfter(fetched[2], fetched[1].timestamp)

\* the second fetch started from the first one's server time and returned
\* durable events
C6_Witness ==
    /\ Len(fetched) = 2
    /\ fetched[1].user = fetched[2].user
    /\ fetched[2].last >= fetched[1].timestamp
    /\ fetched[2].last > fetched[1].last
    /\ Len(fetched[2].durable) = 2

\* C7: every fetch stores the previous unread count (0 when there is none)
\* plus the number of durable events it selected; the stored count is the
\* sum of the durable counts of the user's fetches so far, whatever was
\* pushed or drained.
C7_UnreadCountsDurablesOnly ==
    /\ \A i \in DOMAIN fetched :
          fetched[i].next = Len(fetched[i].durable)
              + (IF fetched[i].prev = NoCount THEN 0 ELSE fetched[i].prev)
    /\ \A u \in Users :
          \/ unread[u] = counted[u]
          \/ /\ unread[u] = NoCount
             /\ counted[u] = 0
             /\ \A i \in DOMAIN fetched : fetched[i].user # u

\* a fetch returned durable events and drained notifications, and the count
\* holds the durable ones only
C7_Witness ==
    /\ Len(fetched) = 2
    /\ \A i \in 1..2 : /\ fetched[i].user = "alice"
                       /\ fetched[i].durable # << >>
    /\ \E i \in 1..2 : fetched[i].adhoc # << >>
    /\ unread["alice"] = Len(fetched[1].durable) + Len(fetched[2].durable)

\* the count a fetch starts from: the cookie, 0 when there is none
CountBefore(response) ==
    IF response.prev = NoCount THEN 0 ELSE response.prev

\* C20: a fetch repeated with the same last_notification at the same server
\* time returns the same durable entries in the same order, and each of the
\* two adds their number d to the unread count: the second starts from the
\* count the first wrote and leaves the count the first started from plus
\* 2 * d; no fetch lowers the count of a user.
C20_UnreadCountGrowsOnRetry ==
    /\ [](Len(fetched) = 2 /\ SameCall(fetched[1], fetched[2])
          => /\ fetched[2].durable = fetched[1].durable
             /\ fetched[1].next
                    = CountBefore(fetched[1]) + Len(fetched[1].durable)
             /\ fetched[2].prev = fetched[1].next
             /\ fetched[2].next
                    = CountBefore(fetched[1]) + 2 * Len(fetched[1].durable)
             /\ unread[fetched[2].user] = fetched[2].next)
    /\ [][\A u \in Users : unread'[u] >= unread[u]]_vars

\* the same fetch was made twice, returned the same two or more durable
\* entries both times, and the count is twice their number
C20_Witness ==
    /\ Len(fetched) = 2
    /\ SameCall(fetched[1], fetched[2])
    /\ fetched[1].prev = NoCount
    /\ Len(fetched[1].durable) >= 2
    /\ fetched[2].durable = fetched[1].durable
    /\ unread[fetched[2].user] = 2 * Len(fetched[1].durable)

\* ------------------------------------------------------------------------
\* Properties of print submissions (SpecPrint)
\* ------------------------------------------------------------------------
JobsOf(u) == {j \in printjobs : j.user = u}

\* request r takes a step
Steps(r) == submit'[r] # submit[r]

\* the step changes nothing in the file cacher, the PrintJob table and the
\* print queue
NoPrintEffect ==
    /\ puts' = puts
    /\ cached' = cached
    /\ printjobs' = printjobs
    /\ queue' = queue

\* C5: a submission that arrives when its user has max_jobs_per_user print
\* jobs or more ends with QuotaExceeded, and creates no PrintJob row, calls
\* no put_file_content and enqueues nothing.
C5_QuotaEnforced ==
    [][\A r \in Reqs :
          (/\ Steps(r)
           /\ nsubmits' = nsubmits + 1
           /\ Cardinality(JobsOf(submit'[r].user)) >= max_jobs_per_user)
          => /\ submit'[r].pc = "done"
             /\ submit'[r].outcome = "QuotaExceeded"
             /\ ~submit'[r].put
             /\ submit'[r].job = 0
             /\ ~submit'[r].enqueued
             /\ NoPrintEffect]_vars

\* a user has reached the quota through two submissions and a further one
\* was refused
C5_Witness ==
    \E r \in Reqs :
        /\ submit[r].pc = "done"
        /\ submit[r].outcome = "QuotaExceeded"
        /\ Cardinality(JobsOf(submit[r].user)) = max_jobs_per_user
        /\ nsubmits = max_jobs_per_user + 1

\* the upload is one field named file that carries one file
WellFormed(files) == DOMAIN files = {"file"} /\ files["file"] = 1

\* the request has gone through the shape check of lines 347-355
ShapeChecked(r) ==
    \/ submit[r].pc = "stored"
    \/ /\ submit[r].pc = "done"
       /\ submit[r].outcome \in {"InvalidFormat", "TooLarge",
                                 "StorageFailed", "OK"}

\* C8: a submission that reaches the shape check with an upload that is not
\* exactly one file under the one field file ends with InvalidFormat, without
\* a put_file_content call, a PrintJob row or an enqueue.
C8_ShapeEnforced ==
    /\ [](\A r \in Reqs :
             (ShapeChecked(r) /\ ~WellFormed(submit[r].files))
             => /\ submit[r].pc = "done"
                /\ submit[r].outcome = "InvalidFormat"
                /\ ~submit[r].put
                /\ submit[r].job = 0
                /\ ~submit[r].enqueued)
    /\ [][\A r \in Reqs :
             (Steps(r) /\ submit'[r].outcome = "InvalidFormat")
             => NoPrintEffect]_vars

\* two files under file were refused, and so was a field of another name
C8_Witness ==
    /\ submit[1].outcome = "InvalidFormat"
    /\ DOMAIN submit[1].files = {"file"}
    /\ submit[1].files["file"] = 2
    /\ submit[2].outcome = "InvalidFormat"
    /\ DOMAIN submit[2].files = {"other"}
    /\ puts = 0

\* the request has gone through the size check of lines 361-368
SizeChecked(r) == ShapeChecked(r) /\ WellFormed(submit[r].files)

\* C9: a well-formed upload longer than max_print_length ends with TooLarge
\* without a put_file_content call; one of max_print_length bytes or fewer
\* passes and put_file_content is called with it.
C9_SizeBoundary ==
    /\ [](\A r \in Reqs :
             SizeChecked(r) =>
                IF submit[r].length > max_print_length
                THEN /\ submit[r].outcome = "TooLarge"
                     /\ ~submit[r].put
                ELSE /\ submit[r].outcome # "TooLarge"
                     /\ submit[r].put)
    /\ [][\A r \in Reqs :
             (Steps(r) /\ submit'[r].outcome = "TooLarge")
             => NoPrintEffect]_vars

\* an upload of max_print_length + 1 bytes was refused and one of
\* max_print_length bytes reached the file cacher
C9_Witness ==
    /\ submit[1].outcome = "TooLarge"
    /\ submit[1].length = max_print_length + 1
    /\ submit[2].pc = "stored"
    /\ submit[2].length = max_print_length
    /\ DigestOf(max_print_length) \in cached
    /\ puts = 1

\* the level of the notification an outcome comes with
LevelOf(outcome) ==
    IF outcome = "OK" THEN NOTIFICATION_SUCCESS ELSE NOTIFICATION_ERROR

\* C10 as stated: every finished submission, printing disabled included, has
\* pushed exactly one notification of the level of its outcome and ended
\* with the redirect to the printing page.
C10_OneNotificationAlways ==
    \A r \in Reqs :
        submit[r].pc = "done"
        => /\ submit[r].pushed = << LevelOf(submit[r].outcome) >>
           /\ submit[r].redirect = "printing"

\* C10 as amended: with printing enabled every submission, whatever its
\* outcome, pushes exactly one notification to its user's list, of level
\* error on a failure and success on success, and ends with the redirect to
\* the printing page; with printing disabled the submission is aborted with
\* 404, pushes nothing and redirects nowhere.
C10_OneNotificationUnlessDisabled ==
    /\ [](\A r \in Reqs :
             /\ submit[r].pc \notin {"idle", "done"}
                => submit[r].pushed = << >>
             /\ submit[r].pc = "done"
                => IF printing_enabled
                   THEN /\ submit[r].outcome # "NotFound"
                        /\ submit[r].pushed
                               = << LevelOf(submit[r].outcome) >>
                        /\ submit[r].redirect = "printing"
                   ELSE /\ submit[r].outcome = "NotFound"
                        /\ submit[r].pushed = << >>
                        /\ submit[r].redirect = None)
    /\ [][\A r \in Reqs :
             Steps(r) =>
                LET u == submit'[r].user IN
                IF submit'[r].pc = "done" /\ printing_enabled
                THEN /\ Len(notifications'[u]) = Len(notifications[u]) + 1
                     /\ notifications'[u][Len(notifications'[u])].level
                            = LevelOf(submit'[r].outcome)
                     /\ \A v \in Users \ {u} :
                            notifications'[v] = notifications[v]
                ELSE notifications' = notifications]_vars

\* a failed and a successful submission have each pushed their notification
C10_Witness ==
    /\ submit[1].pc = "done"
    /\ submit[1].outcome = "StorageFailed"
    /\ submit[1].pushed = << NOTIFICATION_ERROR >>
    /\ submit[2].pc = "done"
    /\ submit[2].outcome = "OK"
    /\ submit[2].pushed = << NOTIFICATION_SUCCESS >>
    /\ submit[1].user = submit[2].user
    /\ Len(notifications[submit[1].user]) = 2

\* C14: a PrintJob row is created only by a request whose put_file_content
\* call has returned a digest, and holds that digest; a request whose
\* put_file_content call fails ends with StorageFailed without a PrintJob row
\* or an enqueue; every id handed to the printing service is the id of a
\* PrintJob row.
C14_PrintJobOnlyAfterStore ==
    /\ [](/\ \A j \in printjobs : j.digest # NoDigest /\ j.digest \in cached
          /\ \A i \in DOMAIN queue : \E j \in printjobs : j.id = queue[i]
          /\ \A r \in Reqs :
                /\ submit[r].outcome = "StorageFailed"
                   => /\ submit[r].put
                      /\ submit[r].digest = NoDigest
                      /\ submit[r].job = 0
                      /\ ~submit[r].enqueued
                /\ submit[r].job # 0
                   => /\ submit[r].put
                      /\ submit[r].digest = DigestOf(submit[r].length)
                      /\ \E j \in printjobs :
                            /\ j.id = submit[r].job
                            /\ j.user = submit[r].user
                            /\ j.digest = submit[r].digest)
    /\ [][/\ \A r \in Reqs :
               (Steps(r) /\ submit'[r].outcome = "StorageFailed")
               => (printjobs' = printjobs /\ queue' = queue)
          /\ printjobs' # printjobs
               => \E r \in Reqs :
                     /\ submit[r].pc = "stored"
                     /\ submit[r].digest \in cached
                     /\ \E j \in printjobs' :
                           /\ printjobs' = printjobs \cup {j}
                           /\ j.digest = submit[r].digest
                           /\ queue' = Append(queue, j.id)]_vars

\* one submission failed in the file cacher and left no row; another one
\* stored its file, and its row and its enqueued id are the only ones
C14_Witness ==
    /\ submit[1].outcome = "StorageFailed"
    /\ submit[2].outcome = "OK"
    /\ puts = 2
    /\ Cardinality(printjobs) = 1
    /\ \E j \in printjobs : j.id = submit[2].job /\ j.digest \in cached
    /\ queue = << submit[2].job >>

\* the first check a request fails, of the feature gate, the quota, the
\* shape and the size in this order; None when it passes the four
FirstFailing(enabled, count, files, length) ==
    IF ~enabled THEN "NotFound"
    ELSE IF count >= max_jobs_per_user THEN "QuotaExceeded"
    ELSE IF ~WellFormed(files) THEN "InvalidFormat"
    ELSE IF length > max_print_length THEN "TooLarge"
    ELSE None

\* C16: the outcome of a submission is the first check it fails, in the order
\* feature gate, quota, shape, size, store, whatever later checks it would
\* fail too; the step that fails a check calls no put_file_content, creates
\* no row and enqueues nothing, and only a request that passes the four
\* checks calls put_file_content.
C16_FirstFailingCheckDecides ==
    [][\A r \in Reqs :
          Steps(r) =>
             LET s == submit'[r]
                 arrives == nsubmits' = nsubmits + 1
                 count == IF arrives THEN Cardinality(JobsOf(s.user))
                          ELSE s.old_count
                 first == FirstFailing(printing_enabled, count, s.files,
                                       s.length)
             IN  IF arrives
                 THEN /\ NoPrintEffect
                      /\ IF first \in {"NotFound", "QuotaExceeded"}
                         THEN s.pc = "done" /\ s.outcome = first
                         ELSE s.pc = "counted" /\ s.outcome = None
                 ELSE IF submit[r].pc = "counted"
                 THEN /\ first \notin {"NotFound", "QuotaExceeded"}
                      /\ IF first # None
                         THEN /\ s.pc = "done" /\ s.outcome = first
                              /\ ~s.put
                              /\ NoPrintEffect
                         ELSE /\ s.put
                              /\ puts' = puts + 1
                              /\ \/ s.pc = "done" /\ s.outcome = "StorageFailed"
                                 \/ s.pc = "stored" /\ s.outcome = None
                 ELSE /\ first = None
                      /\ s.outcome = "OK"]_vars

\* a submission with two oversized files arrived when its user had used up
\* the quota, and ended with QuotaExceeded
C16_Witness ==
    \E r \in Reqs :
        /\ submit[r].pc = "done"
        /\ submit[r].outcome = "QuotaExceeded"
        /\ DOMAIN submit[r].files = {"file"}
        /\ submit[r].files["file"] = 2
        /\ submit[r].length > max_print_length
        /\ ~submit[r].put

\* C17: the quota is checked when a submission arrives and the row is
\* inserted later, with no guard in between: every row is inserted by a
\* request that counted fewer than max_jobs_per_user rows on arrival,
\* whatever the count is at the insert, so a user can hold more than
\* max_jobs_per_user rows, one more for each further request served at the
\* same time.
C17_QuotaCheckedOnArrivalOnly ==
    /\ [](\A u \in Users :
             Cardinality(JobsOf(u))
                 <= max_jobs_per_user + Cardinality(Reqs) - 1)
    /\ [][printjobs' # printjobs =>
             \E r \in Reqs :
                 /\ submit[r].pc = "stored"
                 /\ submit[r].old_count < max_jobs_per_user
                 /\ submit'[r].outcome = "OK"
                 /\ Cardinality(JobsOf(submit[r].user)')
                        = Cardinality(JobsOf(submit[r].user)) + 1]_vars

\* with max_jobs_per_user - 1 rows of a user, two of the user's submissions
\* both counted that many, both inserted their row, and the user holds
\* max_jobs_per_user + 1 rows
C17_Witness ==
    \E u \in Users :
        /\ \A r \in Reqs :
              /\ submit[r].pc = "done"
              /\ submit[r].outcome = "OK"
              /\ submit[r].user = u
              /\ submit[r].old_count = max_jobs_per_user - 1
        /\ Cardinality(JobsOf(u)) = max_jobs_per_user + 1
        /\ Cardinality(JobsOf(u)) > max_jobs_per_user

\* ------------------------------------------------------------------------
\* Properties of the start of a user's time (SpecStart)
\* ------------------------------------------------------------------------
\* C11: starting_time is write-once: it is assigned only when it is unset,
\* and once it holds a value no start request changes it, a request that
\* passed the phase check before another one committed included.
C11_StartingTimeWriteOnce ==
    [][\A u \in Users :
          starting_time[u] # NoTime => starting_time'[u] = starting_time[u]]_vars

====
